---------------------------- MODULE Spec2Model ----------------------------
(***************************************************************************)
(* State-machine model of the osml-models inference services: centerpoint, *)
(* centerpoint-segmentation, flood and aircraft.  One behaviour is one     *)
(* server process running one of the four Flask applications; each /ping   *)
(* or /invocations request is one atomic step of that process.  A fifth    *)
(* kind of process imports server_utils alone and calls its encoder        *)
(* functions directly, one call per step.  OverlapSpec is the same server  *)
(* with the /invocations handlers split into their buffer steps, so that   *)
(* requests served by different threads interleave.                        *)
(*                                                                         *)
(* Representation of Python values:                                        *)
(*   Optional[T]     a sequence of length 0 (None / unset) or 1 (<<v>>)    *)
(*   bbox_percentage an integer number of hundredths (0.1 is 10)           *)
(*   float coords    centerpoint coordinates are integers in units of      *)
(*                   1/200000 pixel (w/2 and w*p are exact); flood         *)
(*                   coordinates are Python ints and are kept as integers  *)
(*   float samples   numerators over 2 (0, 0.5, 1.0 are 0, 1, 2)           *)
(*   mask samples    numerators over 4 (0, 0.5, 0.75, 1.0 are 0, 2, 3, 4)  *)
(*   scores          integers in hundredths                                *)
(*   token_hex/uuid4 a fresh integer taken from the counter tokens         *)
(*   an exception    a record with raised = TRUE                           *)
(***************************************************************************)
EXTENDS Integers, Sequences, FiniteSets, TLC

(* ------------------------------ bounds -------------------------------- *)
\* requests served by the modelled process
MaxRequests == 2
\* raster widths and heights, in pixels, posted to the stub services
MaxDim == 5
\* band counts of the rasters posted to the aircraft service
MaxBands == 5
\* width of the one-row rasters posted to the aircraft service
PixWidth == 2
\* largest explicitly configured FLOOD_VOLUME
MaxVolume == 2
\* seeds of the process-wide random source
MaxSeed == 0
\* side, in pixels, of the square masks handed to the contourer
MaskDim == 3
\* server threads handling requests at the same time
MaxThreads == 2

(* ------------------------- Python helper values ----------------------- *)
None == <<>>
Some(v) == <<v>>

\* str.lower() on the environment strings the model uses
lower(s) ==
    CASE s = "True" -> "true"
      [] s = "TRUE" -> "true"
      [] s = "False" -> "false"
      [] OTHER -> s

(* --------------------------- request bodies --------------------------- *)
\* An HTTP body: empty bytes, bytes that are no raster, or an encoded raster
\* of xsize x ysize pixels with the given band count, sample type and
\* content (fill: "zeros" every sample 0, "last" only the last sample
\* non-zero, "all" every sample non-zero).
Body(kind, xsize, ysize, bands, dtype, fill) ==
    [kind |-> kind, xsize |-> xsize, ysize |-> ysize, bands |-> bands,
     dtype |-> dtype, fill |-> fill]

EmptyBody == Body("empty", 0, 0, 0, "uint8", "zeros")
GarbageBody == Body("garbage", 0, 0, 0, "uint8", "zeros")

\* the raster of the spec's centerpoint scenario (1000 x 800)
ScenarioBody == Body("image", 1000, 800, 3, "uint8", "all")

\* rasters whose dimensions matter (the stub services read only the size):
\* every width up to MaxDim at height MaxDim, a one-row raster, and the
\* scenario raster
SizedBodies ==
    {Body("image", x, MaxDim, 3, "uint8", "all") : x \in 1..MaxDim}
      \cup {Body("image", MaxDim, 1, 3, "uint8", "all"), ScenarioBody}

\* rasters whose samples and band layout matter (aircraft service): every
\* band count up to MaxBands, and three-band rasters that are all zero or
\* hold floating-point samples
PixelBodies ==
    {Body("image", PixWidth, 1, b, "uint8", "all") : b \in 1..MaxBands}
      \cup {Body("image", PixWidth, 1, 3, "uint8", "zeros"),
            Body("image", PixWidth, 1, 3, "float32", "last")}

Services == {"centerpoint", "centerpoint-segmentation", "flood", "aircraft"}

RequestBodies(svc) ==
    {EmptyBody, GarbageBody} \cup (IF svc = "aircraft" THEN PixelBodies ELSE SizedBodies)

(* ----------------------------- environment ---------------------------- *)
\* os.environ of the process: each variable is unset (None) or set.
Environments(svc) ==
    [ENABLE_SEGMENTATION :
        CASE svc \in {"centerpoint-segmentation", "server_utils"} -> {None}
          [] svc = "centerpoint" -> {None, Some("False"), Some("True")}
          [] OTHER -> {None, Some("True")},
     ENABLE_FAULT_DETECTION :
        IF svc = "aircraft" THEN {None, Some("true")} ELSE {None},
     FLOOD_VOLUME :
        IF svc = "flood" THEN {None} \cup {Some(n) : n \in 0..MaxVolume} ELSE {None},
     BBOX_PERCENTAGE :
        IF svc = "aircraft" THEN {None} ELSE {None, Some(50)}]

VARIABLES
    service,   \* which application this process runs
    env,       \* os.environ at import time
    vsimem,    \* names of the files currently held by GDAL's /vsimem filesystem
    tokens,    \* number of token_hex / uuid4 values issued so far
    rng,       \* state of the random module's shared generator
    default_image_id,  \* aircraft: default of instances_to_feature_collection's image_id
    log,       \* the requests served so far, each with its response
    calls,     \* server_utils functions called directly, each with its result
    inflight,  \* per server thread: the request it is handling, step by step
    contents   \* the bodies held by the /vsimem files of step-wise requests

vars == <<service, env, vsimem, tokens, rng, default_image_id, log, calls, inflight, contents>>

(* --------------------------------- GDAL ------------------------------- *)
\* gdal.Open on the /vsimem file holding body: a dataset, or failure.
gdal_decodable(body) == body.kind = "image"

gdal_Open(body) ==
    [RasterXSize |-> body.xsize, RasterYSize |-> body.ysize,
     RasterCount |-> body.bands, dtype |-> body.dtype, fill |-> body.fill]

(* ------------------------------- encoders ----------------------------- *)
PointGeometry == [coordinates |-> <<0, 0>>, type |-> "Point"]

\* mutant: the class is always entered with the default score
detect_to_geojson_dict_default_score(fixed_object_bbox, detection_score, detection_type, tok) ==
    [geometry |-> [coordinates |-> <<0, 0>>, type |-> "Point"],
     id |-> tok + 1,
     properties |->
        [bounds_imcoords |-> fixed_object_bbox,
         detection_score |-> detection_score,
         feature_types |-> [t \in {detection_type} |-> 100],
         image_id |-> tok + 2],
     type |-> "Feature"]

detect_to_geojson_dict(fixed_object_bbox, detection_score, detection_type, tok) ==
    [geometry |-> PointGeometry,
     id |-> tok + 1,
     properties |->
        [bounds_imcoords |-> fixed_object_bbox,
         detection_score |-> detection_score,
         feature_types |-> [t \in {detection_type} |-> detection_score],
         image_id |-> tok + 2],
     type |-> "Feature"]

\* mutant: the geometry is the centre of the box
detect_to_geojson_segmentation_dict_centre(fixed_object_bbox, fixed_object_polygon, detection_score, detection_type, tok) ==
    [geometry |->
        [coordinates |-> <<(fixed_object_bbox[1] + fixed_object_bbox[3]) \div 2,
                           (fixed_object_bbox[2] + fixed_object_bbox[4]) \div 2>>,
         type |-> "Point"],
     id |-> tok + 1,
     properties |->
        [bounds_imcoords |-> fixed_object_bbox,
         polygon_imcoords |-> fixed_object_polygon,
         detection_score |-> detection_score,
         feature_types |-> [t \in {detection_type} |-> detection_score],
         image_id |-> tok + 2],
     type |-> "Feature"]

detect_to_geojson_segmentation_dict(fixed_object_bbox, fixed_object_polygon, detection_score, detection_type, tok) ==
    [geometry |-> PointGeometry,
     id |-> tok + 1,
     properties |->
        [bounds_imcoords |-> fixed_object_bbox,
         polygon_imcoords |-> fixed_object_polygon,
         detection_score |-> detection_score,
         feature_types |-> [t \in {detection_type} |-> detection_score],
         image_id |-> tok + 2],
     type |-> "Feature"]

\* mutant: the polygon is stored under polygon_imcoords
detect_to_feature_polygon_key(fixed_object_bbox, fixed_object_mask, detection_score, detection_type, tok) ==
    IF fixed_object_mask = None
    THEN detect_to_geojson_dict(fixed_object_bbox, detection_score, detection_type, tok)
    ELSE detect_to_geojson_segmentation_dict(fixed_object_bbox, fixed_object_mask[1],
                                             detection_score, detection_type, tok)

\* detect_to_feature / detect_to_geojson (imported by the applications from
\* server_utils): bbox, optional mask, score and class in; a feature out,
\* with geom_imcoords present exactly when a mask is given.
detect_to_feature(fixed_object_bbox, fixed_object_mask, detection_score, detection_type, tok) ==
    IF fixed_object_mask = None
    THEN [geometry |-> PointGeometry,
          id |-> tok + 1,
          properties |->
             [bounds_imcoords |-> fixed_object_bbox,
              detection_score |-> detection_score,
              feature_types |-> [t \in {detection_type} |-> detection_score],
              image_id |-> tok + 2],
          type |-> "Feature"]
    ELSE [geometry |-> PointGeometry,
          id |-> tok + 1,
          properties |->
             [bounds_imcoords |-> fixed_object_bbox,
              geom_imcoords |-> fixed_object_mask[1],
              detection_score |-> detection_score,
              feature_types |-> [t \in {detection_type} |-> detection_score],
              image_id |-> tok + 2],
          type |-> "Feature"]

detect_to_geojson(fixed_object_bbox, fixed_object_mask, tok) ==
    detect_to_feature(fixed_object_bbox, fixed_object_mask, 100, "sample_object", tok)

(* ------------------------------ responses ----------------------------- *)
\* flask.Response: an error text, or the dumped FeatureCollection
Response(status, text, collection) ==
    [status |-> status, text |-> text, collection |-> collection]

FeatureCollection(features) == [type |-> "FeatureCollection", features |-> features]

\* one served request: what was posted, what was answered, whether a
\* detection generator / the detector ran, the image the detector got and
\* the instances it returned
LogEntry(route, req, resp, ran, image) ==
    [route |-> route, req |-> req, status |-> resp.status, text |-> resp.text,
     collection |-> resp.collection, ran |-> ran, image |-> image,
     detections |-> None]

\* a request of the aircraft service that reached the detector and got
\* instances back from it
DetectorLogEntry(req, resp, image, instances) ==
    [LogEntry("/invocations", req, resp, TRUE, Some(image)) EXCEPT
        !.detections = Some(instances)]

(* ----------------------------- centerpoint ---------------------------- *)
\* module constants of centerpoint/app.py (and centerpoint-segmentation)
BBOX_PERCENTAGE == IF env.BBOX_PERCENTAGE = None THEN 10 ELSE env.BBOX_PERCENTAGE[1]

\* bool(os.environ.get("ENABLE_SEGMENTATION", False)): any non-empty string
centerpoint_ENABLE_SEGMENTATION ==
    IF env.ENABLE_SEGMENTATION = None THEN FALSE ELSE env.ENABLE_SEGMENTATION[1] # ""

\* the vertices of matplotlib's unit hexagon (CirclePolygon(center, radius,
\* resolution=6).get_path().vertices: seven points, the first repeated), in
\* thousandths, with cos(30 deg) truncated to 0.866
unit_circle_polygon_vertices ==
    << <<0, 1000>>, <<-866, 500>>, <<-866, -500>>, <<0, -1000>>,
       <<866, -500>>, <<866, 500>>, <<0, 1000>> >>

\* coordinates in units of 1/200000 pixel: width / 2 is width * 100000 and
\* width * bbox_percentage is width * bbox_percentage * 2000
gen_center_bbox(width, height, bbox_percentage) ==
    LET center_xy == <<width * 100000, height * 100000>>
        fixed_object_size_xy == <<width * bbox_percentage * 2000, height * bbox_percentage * 2000>>
    IN  <<center_xy[1] - fixed_object_size_xy[1],
          center_xy[2] - fixed_object_size_xy[2],
          center_xy[1] + fixed_object_size_xy[1],
          center_xy[2] + fixed_object_size_xy[2]>>

gen_center_polygon_detect(width, height, bbox_percentage, tok) ==
    LET center_xy == <<width * 100000, height * 100000>>
        fixed_object_bbox == gen_center_bbox(width, height, bbox_percentage)
        poly_path == Append(unit_circle_polygon_vertices, unit_circle_polygon_vertices[1])
        \* ((x + 1) / 2, (y + 1) / 2), in units of 1/2000
        nonzero_circle == [i \in DOMAIN poly_path |->
                              <<poly_path[i][1] + 1000, poly_path[i][2] + 1000>>]
        poly_scale == <<bbox_percentage * width, bbox_percentage * height>>
        scaled_circle == [i \in DOMAIN nonzero_circle |->
                              <<nonzero_circle[i][1] * poly_scale[1] + center_xy[1],
                                nonzero_circle[i][2] * poly_scale[2] + center_xy[2]>>]
    IN  detect_to_geojson(fixed_object_bbox, Some(scaled_circle), tok)

\* mutant: bbox_percentage taken as the full extent of the box
gen_center_point_detect_halved(width, height, bbox_percentage, tok) ==
    LET center_xy == <<width * 100000, height * 100000>>
        fixed_object_size_xy == <<width * bbox_percentage * 1000, height * bbox_percentage * 1000>>
        fixed_object_bbox == <<center_xy[1] - fixed_object_size_xy[1],
                               center_xy[2] - fixed_object_size_xy[2],
                               center_xy[1] + fixed_object_size_xy[1],
                               center_xy[2] + fixed_object_size_xy[2]>>
    IN  detect_to_geojson(fixed_object_bbox, None, tok)

gen_center_point_detect(width, height, bbox_percentage, tok) ==
    LET center_xy == <<width * 100000, height * 100000>>
        fixed_object_size_xy == <<width * bbox_percentage * 2000, height * bbox_percentage * 2000>>
        fixed_object_bbox == <<center_xy[1] - fixed_object_size_xy[1],
                               center_xy[2] - fixed_object_size_xy[2],
                               center_xy[1] + fixed_object_size_xy[1],
                               center_xy[2] + fixed_object_size_xy[2]>>
    IN  detect_to_geojson(fixed_object_bbox, None, tok)

\* centerpoint-segmentation/app.py
gen_center_point_and_polygon_detect(width, height, bbox_percentage, tok) ==
    LET center_xy == <<width * 100000, height * 100000>>
        fixed_object_size_xy == <<width * bbox_percentage * 2000, height * bbox_percentage * 2000>>
        fixed_object_bbox == <<center_xy[1] - fixed_object_size_xy[1],
                               center_xy[2] - fixed_object_size_xy[2],
                               center_xy[1] + fixed_object_size_xy[1],
                               center_xy[2] + fixed_object_size_xy[2]>>
        poly_path == Append(unit_circle_polygon_vertices, unit_circle_polygon_vertices[1])
        nonzero_circle == [i \in DOMAIN poly_path |->
                              <<poly_path[i][1] + 1000, poly_path[i][2] + 1000>>]
        poly_scale == <<bbox_percentage * width, bbox_percentage * height>>
        scaled_circle == [i \in DOMAIN nonzero_circle |->
                              <<nonzero_circle[i][1] * poly_scale[1],
                                nonzero_circle[i][2] * poly_scale[2]>>]
    IN  detect_to_geojson_segmentation_dict(fixed_object_bbox, scaled_circle,
                                            100, "sample_object", tok)

\* load_image: the body is copied into a fresh /vsimem file and opened; the
\* dataset comes back, or None when GDAL cannot open it.  The file is left
\* in /vsimem.
load_image(body) ==
    LET temp_ds_name == tokens + 1
    IN  [ds |-> IF gdal_decodable(body) THEN Some(gdal_Open(body)) ELSE None,
         vsimem |-> vsimem \cup {temp_ds_name},
         tokens |-> tokens + 1]

centerpoint_bad_image == Response(400, "Unable to parse image from request!", None)

\* POST /invocations of centerpoint/app.py
centerpoint_predict ==
    /\ service = "centerpoint"
    /\ Len(log) < MaxRequests
    /\ \E body \in RequestBodies(service) :
         LET loaded == load_image(body)
             ds == loaded.ds
         IN  /\ vsimem' = loaded.vsimem
             /\ IF ds = None
                THEN /\ log' = Append(log, LogEntry("/invocations", body,
                                                    centerpoint_bad_image, FALSE, None))
                     /\ tokens' = loaded.tokens
                ELSE LET width == ds[1].RasterXSize
                         height == ds[1].RasterYSize
                         feature ==
                            IF centerpoint_ENABLE_SEGMENTATION = TRUE
                            THEN gen_center_polygon_detect(width, height, BBOX_PERCENTAGE,
                                                           loaded.tokens)
                            ELSE gen_center_point_detect(width, height, BBOX_PERCENTAGE,
                                                         loaded.tokens)
                         json_results == FeatureCollection(<<feature>>)
                     IN  /\ log' = Append(log, LogEntry("/invocations", body,
                                       Response(200, "", Some(json_results)), TRUE, None))
                         /\ tokens' = loaded.tokens + 2
    /\ UNCHANGED <<service, env, rng, default_image_id, calls, inflight, contents>>

\* POST /invocations of centerpoint-segmentation/app.py
centerpoint_segmentation_predict ==
    /\ service = "centerpoint-segmentation"
    /\ Len(log) < MaxRequests
    /\ \E body \in RequestBodies(service) :
         LET loaded == load_image(body)
             ds == loaded.ds
         IN  /\ vsimem' = loaded.vsimem
             /\ IF ds = None
                THEN /\ log' = Append(log, LogEntry("/invocations", body,
                                                    centerpoint_bad_image, FALSE, None))
                     /\ tokens' = loaded.tokens
                ELSE LET width == ds[1].RasterXSize
                         height == ds[1].RasterYSize
                         feature == gen_center_point_and_polygon_detect(
                                        width, height, BBOX_PERCENTAGE, loaded.tokens)
                         json_results == FeatureCollection(<<feature>>)
                     IN  /\ log' = Append(log, LogEntry("/invocations", body,
                                       Response(200, "", Some(json_results)), TRUE, None))
                         /\ tokens' = loaded.tokens + 2
    /\ UNCHANGED <<service, env, rng, default_image_id, calls, inflight, contents>>

\* mutant: the health check fails while a /vsimem buffer is allocated
healthcheck_checks_vsimem ==
    /\ service \in Services
    /\ Len(log) < MaxRequests
    /\ log' = Append(log, LogEntry("/ping", EmptyBody,
                        Response(IF vsimem = {} THEN 200 ELSE 500, "\n", None),
                        FALSE, None))
    /\ UNCHANGED <<service, env, vsimem, tokens, rng, default_image_id, calls, inflight, contents>>

\* GET /ping (the same handler in every application)
healthcheck ==
    /\ service \in Services
    /\ Len(log) < MaxRequests
    /\ log' = Append(log, LogEntry("/ping", EmptyBody, Response(200, "\n", None), FALSE, None))
    /\ UNCHANGED <<service, env, vsimem, tokens, rng, default_image_id, calls, inflight, contents>>

(* -------------------------------- flood ------------------------------ *)
\* mutant: the default volume is the one the test suite configures
FLOOD_VOLUME_default_500 == IF env.FLOOD_VOLUME = None THEN 500 ELSE env.FLOOD_VOLUME[1]

\* int(os.environ.get("FLOOD_VOLUME", 100))
FLOOD_VOLUME == IF env.FLOOD_VOLUME = None THEN 100 ELSE env.FLOOD_VOLUME[1]

\* mutant: the flag is compared without .lower()
ENABLE_SEGMENTATION_case_sensitive ==
    (IF env.ENABLE_SEGMENTATION = None THEN "False" ELSE env.ENABLE_SEGMENTATION[1]) = "true"

\* os.environ.get("ENABLE_SEGMENTATION", "False").lower() == "true"
\* (flood/app.py and aircraft/app.py)
ENABLE_SEGMENTATION ==
    lower(IF env.ENABLE_SEGMENTATION = None THEN "False" ELSE env.ENABLE_SEGMENTATION[1]) = "true"

\* The random module's shared generator: a deterministic generator with an
\* arbitrary seed whose state advances with every draw.
random_next(r) == (5 * r + 3) % 16

\* randrange(start, stop) for start < stop
randrange(start, stop, r) == start + (r % (stop - start))

\* random.uniform(0, 1), in hundredths
random_uniform(r) == (r * 100) \div 16

\* math.ceil(dimension * bbox_percentage)
ceil_scaled(dimension, bbox_percentage) == (dimension * bbox_percentage + 99) \div 100

\* One pass through the body of gen_flood_detects's loop; st carries the
\* features so far, the generator state and the token counter, or the
\* exception that left the loop.
flood_iteration(height, width, bbox_percentage, st) ==
    IF st.raised THEN st
    ELSE
      LET fixed_object_size_xy == <<ceil_scaled(width, bbox_percentage),
                                    ceil_scaled(height, bbox_percentage)>>
          sx == fixed_object_size_xy[1]
          sy == fixed_object_size_xy[2]
      IN  IF width - sx <= sx
          THEN \* randrange raises ValueError: empty range
               [st EXCEPT !.raised = TRUE, !.features = <<>>]
          ELSE
            LET gen_x == randrange(sx, width - sx, st.rng)
                r1 == random_next(st.rng)
            IN  IF height - sy <= sy
                THEN [st EXCEPT !.raised = TRUE, !.features = <<>>, !.rng = r1]
                ELSE
                  LET gen_y == randrange(sy, height - sy, r1)
                      r2 == random_next(r1)
                      fixed_object_bbox == <<gen_x - sx, gen_y - sy, gen_x + sx, gen_y + sy>>
                      fixed_object_mask ==
                          IF ENABLE_SEGMENTATION
                          THEN Some(<< <<gen_x - sx, gen_y + sy>>,
                                       <<gen_y - sx, gen_x + sx>>,
                                       <<gen_x + sx, gen_y + sy>>,
                                       <<gen_y + sy, gen_x + sx>>,
                                       <<gen_x - sx, gen_y + sy>> >>)
                          ELSE None
                      feature == detect_to_feature(fixed_object_bbox, fixed_object_mask,
                                                   random_uniform(r2), "sample_object",
                                                   st.tokens)
                  IN  [raised |-> FALSE,
                       features |-> Append(st.features, feature),
                       rng |-> random_next(r2),
                       tokens |-> st.tokens + 2]

\* n consecutive passes through the loop body (evaluated by halving n)
RECURSIVE flood_iterate(_, _, _, _, _)
flood_iterate(n, height, width, bbox_percentage, st) ==
    IF n <= 0 THEN st
    ELSE IF n = 1 THEN flood_iteration(height, width, bbox_percentage, st)
    ELSE LET first == flood_iterate(n \div 2, height, width, bbox_percentage, st)
         IN  IF first.raised THEN first
             ELSE flood_iterate(n - (n \div 2), height, width, bbox_percentage, first)

\* mutant: the loop stops one detection early
flood_iterations_short == FLOOD_VOLUME - 1

\* for i in range(FLOOD_VOLUME)
flood_iterations == FLOOD_VOLUME

gen_flood_detects(height, width, bbox_percentage, r, tok) ==
    flood_iterate(flood_iterations, height, width, bbox_percentage,
                  [raised |-> FALSE, features |-> <<>>, rng |-> r, tokens |-> tok])

\* except Exception around the whole handler
flood_internal_error == Response(500, "Unable to process request.", None)

\* mutant: gdal.Open's RuntimeError falls through to the outer handler
flood_bad_image_outer == flood_internal_error

\* except RuntimeError around gdal.Open
flood_bad_image == Response(400, "Unable to parse image from request!", None)

\* POST /invocations of flood/app.py
flood_predict ==
    /\ service = "flood"
    /\ Len(log) < MaxRequests
    /\ \E body \in RequestBodies(service) :
         LET temp_ds_name == tokens + 1
             created == vsimem \cup {temp_ds_name}
         IN  IF ~gdal_decodable(body)
             THEN \* gdal.Open raises; gdal_dataset is still None in the finally block
                  /\ log' = Append(log, LogEntry("/invocations", body, flood_bad_image,
                                                 FALSE, None))
                  /\ vsimem' = created
                  /\ tokens' = tokens + 1
                  /\ rng' = rng
             ELSE LET gdal_dataset == gdal_Open(body)
                      detects == gen_flood_detects(gdal_dataset.RasterXSize,
                                                   gdal_dataset.RasterYSize,
                                                   BBOX_PERCENTAGE, rng, tokens + 1)
                      resp == IF detects.raised
                              THEN flood_internal_error
                              ELSE Response(200, "",
                                            Some(FeatureCollection(detects.features)))
                  IN  /\ log' = Append(log, LogEntry("/invocations", body, resp, TRUE, None))
                      /\ vsimem' = created \ {temp_ds_name}
                      /\ tokens' = detects.tokens
                      /\ rng' = detects.rng
    /\ UNCHANGED <<service, env, default_image_id, calls, inflight, contents>>

(* ------------------------------- aircraft ---------------------------- *)
\* os.environ.get("ENABLE_FAULT_DETECTION", "False").lower() == "true"
ENABLE_FAULT_DETECTION ==
    lower(IF env.ENABLE_FAULT_DETECTION = None THEN "False"
          ELSE env.ENABLE_FAULT_DETECTION[1]) = "true"

Repeat3(data) == data \o data \o data

\* gdal_dataset.ReadAsArray(): a (bands, rows, cols) array, or a (rows, cols)
\* array for a one-band raster; samples are laid out row-major.
ReadAsArray(ds) ==
    LET n == ds.RasterCount * ds.RasterYSize * ds.RasterXSize
        nonzero == IF ds.dtype = "uint8" THEN 2 ELSE 1
    IN  [shape |-> IF ds.RasterCount = 1
                   THEN <<ds.RasterYSize, ds.RasterXSize>>
                   ELSE <<ds.RasterCount, ds.RasterYSize, ds.RasterXSize>>,
         dtype |-> ds.dtype,
         data |-> [i \in 1..n |->
                      CASE ds.fill = "zeros" -> 0
                        [] ds.fill = "last" -> IF i = n THEN nonzero ELSE 0
                        [] OTHER -> nonzero]]

\* mutant: np.all(image_array), the comparison with 0 left out
all_nonzero(image_array) == \A i \in DOMAIN image_array.data : image_array.data[i] # 0

\* np.all(np.isclose(image_array, 0)): every modelled non-zero sample is
\* farther from 0 than isclose's tolerance
all_isclose_zero(image_array) == \A i \in DOMAIN image_array.data : image_array.data[i] = 0

\* "Handling of different image shapes"
to_three_channels(image_array) ==
    LET shape == image_array.shape
    IN  IF Len(shape) = 2
        THEN [image_array EXCEPT !.shape = <<3, shape[1], shape[2]>>,
                                 !.data = Repeat3(image_array.data)]
        ELSE IF shape[1] = 1
        THEN [image_array EXCEPT !.shape = <<3, shape[2], shape[3]>>,
                                 !.data = Repeat3(image_array.data)]
        ELSE IF shape[1] = 4
        THEN [image_array EXCEPT !.shape = <<3, shape[2], shape[3]>>,
                                 !.data = SubSeq(image_array.data, 1, 3 * shape[2] * shape[3])]
        ELSE image_array

\* (image_array * 255).astype(np.uint8): uint8 arithmetic wraps modulo 256,
\* a float product is truncated
times_255_as_uint8(image_array) ==
    [image_array EXCEPT
        !.dtype = "uint8",
        !.data = [i \in DOMAIN image_array.data |->
                     IF image_array.dtype = "uint8"
                     THEN (image_array.data[i] * 255) % 256
                     ELSE (image_array.data[i] * 255) \div 2]]

\* np.transpose(image_array, (1, 2, 0)): (channels, height, width) to
\* (height, width, channels)
transpose_to_hwc(image_array) ==
    LET c == image_array.shape[1]
        h == image_array.shape[2]
        w == image_array.shape[3]
    IN  [image_array EXCEPT
            !.shape = <<h, w, c>>,
            !.data = [k \in 1..(c * h * w) |->
                         LET ch == (k - 1) % c
                             px == (k - 1) \div c
                         IN  image_array.data[ch * h * w + px + 1]]]

\* A detectron2 instance: box, score (hundredths) and a one-row mask whose
\* samples are numerators over 4.
Instance(w, maskvalue) ==
    [bbox |-> <<0, 0, w, 1>>, score |-> 95, mask |-> << [x \in 1..w |-> maskvalue] >>]

\* aircraft_predictor(image)["instances"]: the detector is a black box that
\* raises or returns some list of instances for the image
PredictorOutcomes(image) ==
    LET w == image.shape[2]
    IN  {[raised |-> TRUE, instances |-> <<>>],
         [raised |-> FALSE, instances |-> <<>>],
         [raised |-> FALSE, instances |-> <<Instance(w, 4), Instance(w, 4)>>],
         [raised |-> FALSE, instances |-> <<Instance(w, 4), Instance(w, 0)>>],
         [raised |-> FALSE, instances |-> <<Instance(w, 3)>>]}

\* cv2.findContours(binary_mask, RETR_EXTERNAL, CHAIN_APPROX_NONE) on a
\* one-row mask: one contour per run of foreground pixels, each walking the
\* run left to right and back.
RECURSIVE run_end(_, _)
run_end(row, a) == IF a < Len(row) /\ row[a + 1] # 0 THEN run_end(row, a + 1) ELSE a

run_contour(a, b) ==
    [k \in 1..(IF b = a THEN 1 ELSE 2 * (b - a)) |->
        IF k <= b - a + 1 THEN <<a + k - 2, 0>> ELSE <<2 * b - a - k, 0>>]

RECURSIVE findContours_row(_, _, _)
findContours_row(row, x, found) ==
    IF x > Len(row) THEN found
    ELSE IF row[x] # 0
         THEN findContours_row(row, run_end(row, x) + 1,
                               <<run_contour(x, run_end(row, x))>> \o found)
         ELSE findContours_row(row, x + 1, found)

mask_to_polygon(mask) ==
    LET mask_np == [x \in DOMAIN mask[1] |-> mask[1][x] \div 4]
        binary_mask == [x \in DOMAIN mask_np |-> IF 2 * mask_np[x] > 1 THEN 255 ELSE 0]
        contours == findContours_row(binary_mask, 1, <<>>)
    IN  IF contours = <<>>
        THEN [raised |-> TRUE, polygon |-> <<>>]
        ELSE [raised |-> FALSE, polygon |-> contours[1]]

RECURSIVE instances_loop(_, _, _, _, _)
instances_loop(i, instances, image_id, tok, features) ==
    IF i > Len(instances)
    THEN [raised |-> FALSE, features |-> features, tokens |-> tok]
    ELSE LET base == [bounds_imcoords |-> instances[i].bbox,
                      detection_score |-> instances[i].score,
                      feature_types |-> [t \in {"aircraft"} |-> instances[i].score],
                      image_id |-> image_id]
             traced == mask_to_polygon(instances[i].mask)
         IN  IF ENABLE_SEGMENTATION /\ traced.raised
             THEN [raised |-> TRUE, features |-> <<>>, tokens |-> tok + 1]
             ELSE instances_loop(i + 1, instances, image_id, tok + 1,
                    Append(features,
                       [type |-> "Feature",
                        geometry |-> PointGeometry,
                        id |-> tok + 1,
                        properties |->
                           IF ENABLE_SEGMENTATION
                           THEN [bounds_imcoords |-> base.bounds_imcoords,
                                 detection_score |-> base.detection_score,
                                 feature_types |-> base.feature_types,
                                 image_id |-> base.image_id,
                                 geom_imcoords |-> traced.polygon]
                           ELSE base]))

\* mutant: instances equal to the first one are merged into it
instances_to_feature_collection_dedup(instances, image_id, tok) ==
    instances_loop(1,
        SelectSeq(instances, LAMBDA inst : inst # instances[1]) \o
            (IF instances = <<>> THEN <<>> ELSE <<instances[1]>>),
        image_id, tok, <<>>)

instances_to_feature_collection(instances, image_id, tok) ==
    instances_loop(1, instances, image_id, tok, <<>>)

\* except Exception in predict
aircraft_internal_error == Response(500, "Unable to process request!", None)

\* the image request_to_instances hands to the detector
normalized_image(image_array) ==
    transpose_to_hwc(times_255_as_uint8(to_three_channels(image_array)))

\* POST /invocations of aircraft/app.py: request_to_instances, then
\* instances_to_feature_collection
aircraft_predict ==
    /\ service = "aircraft"
    /\ Len(log) < MaxRequests
    /\ \E body \in RequestBodies(service) :
         LET temp_ds_name == tokens + 1
             created == vsimem \cup {temp_ds_name}
         IN  IF ~gdal_decodable(body)
             THEN \* gdal.Open raises; nothing is unlinked, the error is re-raised
                  /\ log' = Append(log, LogEntry("/invocations", body,
                                                 aircraft_internal_error, FALSE, None))
                  /\ vsimem' = created
                  /\ tokens' = tokens + 1
             ELSE LET gdal_dataset == gdal_Open(body)
                      image_array == ReadAsArray(gdal_dataset)
                  IN  /\ vsimem' = created \ {temp_ds_name}
                      /\ IF ENABLE_FAULT_DETECTION /\ all_isclose_zero(image_array)
                         THEN /\ log' = Append(log, LogEntry("/invocations", body,
                                                   aircraft_internal_error, FALSE, None))
                              /\ tokens' = tokens + 1
                         ELSE LET image == normalized_image(image_array)
                              IN  \E out \in PredictorOutcomes(image) :
                                    LET converted == instances_to_feature_collection(
                                                        out.instances, default_image_id[1],
                                                        tokens + 1)
                                    IN  IF out.raised
                                        THEN /\ log' = Append(log,
                                                  LogEntry("/invocations", body,
                                                     aircraft_internal_error, TRUE, Some(image)))
                                             /\ tokens' = tokens + 1
                                        ELSE IF converted.raised
                                        THEN /\ log' = Append(log,
                                                  DetectorLogEntry(body,
                                                     aircraft_internal_error, image,
                                                     out.instances))
                                             /\ tokens' = converted.tokens
                                        ELSE /\ log' = Append(log,
                                                  DetectorLogEntry(body,
                                                     Response(200, "",
                                                        Some(FeatureCollection(converted.features))),
                                                     image, out.instances))
                                             /\ tokens' = converted.tokens
    /\ UNCHANGED <<service, env, rng, default_image_id, calls, inflight, contents>>

(* --------------------------- mask contouring -------------------------- *)
\* Masks handed to the server_utils contourer: MaskDim rows of MaskDim
\* samples (numerators over 4, so 4 is 1.0).  The shapes are the empty mask,
\* one pixel, one row, the filled square, the filled square with its
\* interior cut out (one hole), and the square filled with 0.75.
MaskShapes == {"empty", "pixel", "row", "full", "ring", "faint"}

InShape(shape, x, y) ==
    CASE shape = "empty" -> FALSE
      [] shape = "pixel" -> x = 1 /\ y = 1
      [] shape = "row" -> y = 1
      [] shape \in {"full", "faint"} -> TRUE
      [] shape = "ring" -> x \in {1, MaskDim} \/ y \in {1, MaskDim}

Mask(shape) ==
    [y \in 1..MaskDim |-> [x \in 1..MaskDim |->
        IF InShape(shape, x, y) THEN (IF shape = "faint" THEN 3 ELSE 4) ELSE 0]]

Masks == {Mask(shape) : shape \in MaskShapes}

\* mask.astype("uint8"): the fraction is truncated
astype_uint8(mask) ==
    [y \in DOMAIN mask |-> [x \in DOMAIN mask[y] |-> mask[y][x] \div 4]]

\* pixel coordinates (x, y), counted from 0, of the non-zero samples
NonZeroPixels(image) ==
    {<<q[1] - 1, q[2] - 1>> :
        q \in {r \in (1..Len(image[1])) \X (1..Len(image)) : image[r[2]][r[1]] # 0}}

SetMin(S) == CHOOSE m \in S : \A n \in S : m <= n

SetMax(S) == CHOOSE m \in S : \A n \in S : m >= n

\* a border as findContours reports it: a point that repeats its
\* predecessor (cyclically) is listed once
RECURSIVE drop_repeats(_, _)
drop_repeats(points, k) ==
    IF k > Len(points) THEN <<>>
    ELSE (IF points[k] = points[IF k = 1 THEN Len(points) ELSE k - 1]
          THEN <<>> ELSE <<points[k]>>) \o drop_repeats(points, k + 1)

\* cv2.findContours(image, RETR_CCOMP, CHAIN_APPROX_TC89_KCOS) for an image
\* whose non-zero pixels fill a rectangle, possibly with one rectangular
\* hole strictly inside it: the outer border (its corners) first, then the
\* border of the hole (the pixels around it) as its child; no contours and
\* no hierarchy for an image without non-zero pixels.
findContours_ccomp(image) ==
    LET fg == NonZeroPixels(image)
    IN  IF fg = {}
        THEN [contours |-> <<>>, hierarchy |-> None]
        ELSE LET x0 == SetMin({q[1] : q \in fg})
                 x1 == SetMax({q[1] : q \in fg})
                 y0 == SetMin({q[2] : q \in fg})
                 y1 == SetMax({q[2] : q \in fg})
                 hole == ((x0..x1) \X (y0..y1)) \ fg
                 outer == IF x0 = x1 /\ y0 = y1 THEN << <<x0, y0>> >>
                          ELSE IF x0 = x1 \/ y0 = y1 THEN << <<x0, y0>>, <<x1, y1>> >>
                          ELSE << <<x0, y0>>, <<x0, y1>>, <<x1, y1>>, <<x1, y0>> >>
             IN  IF hole = {}
                 THEN [contours |-> <<outer>>,
                       hierarchy |-> Some(<< <<-1, -1, -1, -1>> >>)]
                 ELSE LET hx0 == SetMin({q[1] : q \in hole})
                          hx1 == SetMax({q[1] : q \in hole})
                          hy0 == SetMin({q[2] : q \in hole})
                          hy1 == SetMax({q[2] : q \in hole})
                          inner == drop_repeats(
                                     << <<hx0 - 1, hy0>>, <<hx0, hy0 - 1>>,
                                        <<hx1, hy0 - 1>>, <<hx1 + 1, hy0>>,
                                        <<hx1 + 1, hy1>>, <<hx1, hy1 + 1>>,
                                        <<hx0, hy1 + 1>>, <<hx0 - 1, hy1>> >>, 1)
                      IN  [contours |-> <<outer, inner>>,
                           hierarchy |-> Some(<< <<-1, -1, 1, -1>>, <<-1, -1, -1, 0>> >>)]

\* mutant: the last contour found is taken instead of the first
convert_mask_to_polygon_last_contour(mask) ==
    LET res == findContours_ccomp(astype_uint8(mask))
    IN  IF res.hierarchy = None
        THEN [raised |-> TRUE, polygon |-> <<>>, warnings |-> 0]
        ELSE LET hierarchy == res.hierarchy[1]
                 has_holes == \E k \in DOMAIN hierarchy : hierarchy[k][4] >= 0
                 poly == res.contours[Len(res.contours)]
             IN  [raised |-> FALSE,
                  polygon |-> Append(poly, poly[1]),
                  warnings |-> IF has_holes THEN 1 ELSE 0]

\* convert_mask_to_polygon: the first contour, closed by repeating its first
\* point; one logging.warning when any contour has a parent.  hierarchy is
\* None when there are no contours, and hierarchy.reshape then raises.
convert_mask_to_polygon(mask) ==
    LET res == findContours_ccomp(astype_uint8(mask))
    IN  IF res.hierarchy = None
        THEN [raised |-> TRUE, polygon |-> <<>>, warnings |-> 0]
        ELSE LET hierarchy == res.hierarchy[1]
                 has_holes == \E k \in DOMAIN hierarchy : hierarchy[k][4] >= 0
                 poly == res.contours[1]
             IN  [raised |-> FALSE,
                  polygon |-> Append(poly, poly[1]),
                  warnings |-> IF has_holes THEN 1 ELSE 0]

\* detect_and_mask_to_geojson_dict: the dict display draws the id, traces
\* the mask, then draws the image_id
detect_and_mask_to_geojson_dict(fixed_object_bbox, fixed_object_mask, detection_score, detection_type, tok) ==
    LET traced == convert_mask_to_polygon(fixed_object_mask)
    IN  IF traced.raised
        THEN [raised |-> TRUE, feature |-> None, warnings |-> 0, tokens |-> tok + 1]
        ELSE [raised |-> FALSE,
              feature |-> Some(detect_to_geojson_segmentation_dict(
                                 fixed_object_bbox, traced.polygon,
                                 detection_score, detection_type, tok)),
              warnings |-> traced.warnings,
              tokens |-> tok + 2]

(* ----------------------- direct encoder calls ------------------------- *)
\* defaults of the encoders' detection_score and detection_type parameters
default_detection_score == 100

default_detection_type == "sample_object"

or_default(argument, default) == IF argument = None THEN default ELSE argument[1]

\* arguments of the direct calls: a box, a closed polygon, and a score and
\* class that are either both left to their defaults or both given
CallBBox == <<0, 0, MaskDim, MaskDim>>

CallPolygon == << <<0, 0>>, <<0, MaskDim>>, <<MaskDim, MaskDim>>, <<0, 0>> >>

CallLabels == {[score |-> None, type |-> None], [score |-> Some(95), type |-> Some("aircraft")]}

CallRecord(fn, args, raised, result, warnings) ==
    [fn |-> fn, args |-> args, raised |-> raised, result |-> result,
     warnings |-> warnings]

call_detect_to_geojson_dict ==
    /\ service = "server_utils"
    /\ Len(calls) < MaxRequests
    /\ \E label \in CallLabels :
         /\ calls' = Append(calls,
               CallRecord("detect_to_geojson_dict",
                  [bbox |-> CallBBox, mask |-> None, score |-> label.score,
                   type |-> label.type],
                  FALSE,
                  Some(detect_to_geojson_dict(CallBBox,
                          or_default(label.score, default_detection_score),
                          or_default(label.type, default_detection_type), tokens)),
                  0))
         /\ tokens' = tokens + 2
    /\ UNCHANGED <<service, env, vsimem, rng, default_image_id, log, inflight, contents>>

call_detect_to_geojson_segmentation_dict ==
    /\ service = "server_utils"
    /\ Len(calls) < MaxRequests
    /\ \E label \in CallLabels :
         /\ calls' = Append(calls,
               CallRecord("detect_to_geojson_segmentation_dict",
                  [bbox |-> CallBBox, mask |-> Some(CallPolygon),
                   score |-> label.score, type |-> label.type],
                  FALSE,
                  Some(detect_to_geojson_segmentation_dict(CallBBox, CallPolygon,
                          or_default(label.score, default_detection_score),
                          or_default(label.type, default_detection_type), tokens)),
                  0))
         /\ tokens' = tokens + 2
    /\ UNCHANGED <<service, env, vsimem, rng, default_image_id, log, inflight, contents>>

call_detect_to_feature ==
    /\ service = "server_utils"
    /\ Len(calls) < MaxRequests
    /\ \E label \in CallLabels, mask \in {None, Some(CallPolygon)} :
         /\ calls' = Append(calls,
               CallRecord("detect_to_feature",
                  [bbox |-> CallBBox, mask |-> mask, score |-> label.score,
                   type |-> label.type],
                  FALSE,
                  Some(detect_to_feature(CallBBox, mask,
                          or_default(label.score, default_detection_score),
                          or_default(label.type, default_detection_type), tokens)),
                  0))
         /\ tokens' = tokens + 2
    /\ UNCHANGED <<service, env, vsimem, rng, default_image_id, log, inflight, contents>>

call_convert_mask_to_polygon ==
    /\ service = "server_utils"
    /\ Len(calls) < MaxRequests
    /\ \E mask \in Masks :
         LET traced == convert_mask_to_polygon(mask)
         IN  calls' = Append(calls,
                CallRecord("convert_mask_to_polygon",
                   [bbox |-> None, mask |-> Some(mask), score |-> None, type |-> None],
                   traced.raised,
                   IF traced.raised THEN None ELSE Some(traced.polygon),
                   traced.warnings))
    /\ UNCHANGED <<service, env, vsimem, tokens, rng, default_image_id, log, inflight, contents>>

call_detect_and_mask_to_geojson_dict ==
    /\ service = "server_utils"
    /\ Len(calls) < MaxRequests
    /\ \E mask \in Masks :
         LET built == detect_and_mask_to_geojson_dict(CallBBox, mask,
                         default_detection_score, default_detection_type, tokens)
         IN  /\ calls' = Append(calls,
                   CallRecord("detect_and_mask_to_geojson_dict",
                      [bbox |-> CallBBox, mask |-> Some(mask), score |-> None,
                       type |-> None],
                      built.raised, built.feature, built.warnings))
             /\ tokens' = built.tokens
    /\ UNCHANGED <<service, env, vsimem, rng, default_image_id, log, inflight, contents>>

(* ------------------------ concurrent requests ------------------------- *)
\* waitress serves the application from several threads, so the steps of
\* different /invocations requests interleave.  A request names its buffer,
\* writes it, opens it, and then builds its response and cleans up.
Threads == 1..MaxThreads

IdleThread == [pc |-> "idle", body |-> EmptyBody, temp_ds_name |-> 0, ds |-> None]

NoFiles == [name \in {} |-> EmptyBody]

\* bodies posted while requests overlap
OverlapBodies(svc) ==
    IF svc = "aircraft"
    THEN {GarbageBody, Body("image", PixWidth, 1, 3, "uint8", "all"),
          Body("image", PixWidth, 1, 1, "uint8", "all")}
    ELSE {GarbageBody, ScenarioBody, Body("image", MaxDim, MaxDim, 3, "uint8", "all")}

\* configuration of the overlapping runs: the defaults, and one flood
\* detection per request
OverlapEnvironments(svc) ==
    {[ENABLE_SEGMENTATION |-> None, ENABLE_FAULT_DETECTION |-> None,
      FLOOD_VOLUME |-> IF svc = "flood" THEN Some(1) ELSE None,
      BBOX_PERCENTAGE |-> None]}

\* mutant: every request uses the same buffer name
temp_ds_name_shared(tok) == 0

\* "/vsimem/" + token_hex(16), "/vsimem/" + str(uuid.uuid4()): a fresh name
temp_ds_name(tok) == tok + 1

\* a thread takes a request and draws the name of its buffer
begin_request(t) ==
    /\ service \in Services
    /\ inflight[t].pc = "idle"
    /\ Len(log) + Cardinality({u \in Threads : inflight[u].pc # "idle"}) < MaxRequests
    /\ \E body \in OverlapBodies(service) :
         inflight' = [inflight EXCEPT ![t] =
                         [pc |-> "named", body |-> body,
                          temp_ds_name |-> temp_ds_name(tokens), ds |-> None]]
    /\ tokens' = tokens + 1
    /\ UNCHANGED <<service, env, vsimem, rng, default_image_id, log, calls, contents>>

\* gdal.FileFromMemBuffer(temp_ds_name, request.get_data()): the file is
\* created, or replaced when the name exists
FileFromMemBuffer(t) ==
    /\ inflight[t].pc = "named"
    /\ LET name == inflight[t].temp_ds_name
       IN  /\ vsimem' = vsimem \cup {name}
           /\ contents' = [n \in DOMAIN contents \cup {name} |->
                              IF n = name THEN inflight[t].body ELSE contents[n]]
    /\ inflight' = [inflight EXCEPT ![t].pc = "written"]
    /\ UNCHANGED <<service, env, tokens, rng, default_image_id, log, calls>>

\* gdal.Open(temp_ds_name): the dataset decoded from whatever the file of
\* that name holds now; no dataset when it is missing or undecodable
Open(t) ==
    /\ inflight[t].pc = "written"
    /\ LET name == inflight[t].temp_ds_name
       IN  inflight' = [inflight EXCEPT
              ![t].pc = "opened",
              ![t].ds = IF name \in DOMAIN contents /\ gdal_decodable(contents[name])
                        THEN Some(gdal_Open(contents[name])) ELSE None]
    /\ UNCHANGED <<service, env, vsimem, tokens, rng, default_image_id, log, calls, contents>>

\* gdal.Unlink(temp_ds_name)
Unlink(name) ==
    /\ vsimem' = vsimem \ {name}
    /\ contents' = [n \in DOMAIN contents \ {name} |-> contents[n]]

\* centerpoint and centerpoint-segmentation predict after load_image: the
\* response is built from the dataset; the buffer is not unlinked
centerpoint_respond(t) ==
    /\ service \in {"centerpoint", "centerpoint-segmentation"}
    /\ inflight[t].pc = "opened"
    /\ LET ds == inflight[t].ds
       IN  IF ds = None
           THEN /\ log' = Append(log, LogEntry("/invocations", inflight[t].body,
                                               centerpoint_bad_image, FALSE, None))
                /\ tokens' = tokens
           ELSE LET width == ds[1].RasterXSize
                    height == ds[1].RasterYSize
                    feature ==
                       IF service = "centerpoint-segmentation"
                       THEN gen_center_point_and_polygon_detect(width, height,
                                                                BBOX_PERCENTAGE, tokens)
                       ELSE IF centerpoint_ENABLE_SEGMENTATION = TRUE
                       THEN gen_center_polygon_detect(width, height, BBOX_PERCENTAGE, tokens)
                       ELSE gen_center_point_detect(width, height, BBOX_PERCENTAGE, tokens)
                IN  /\ log' = Append(log, LogEntry("/invocations", inflight[t].body,
                                  Response(200, "", Some(FeatureCollection(<<feature>>))),
                                  TRUE, None))
                    /\ tokens' = tokens + 2
    /\ inflight' = [inflight EXCEPT ![t] = IdleThread]
    /\ UNCHANGED <<service, env, vsimem, rng, default_image_id, calls, contents>>

\* flood predict after gdal.Open: 400 when it failed, else the detections;
\* the finally block unlinks the buffer when there is a dataset
flood_respond(t) ==
    /\ service = "flood"
    /\ inflight[t].pc = "opened"
    /\ LET ds == inflight[t].ds
       IN  IF ds = None
           THEN /\ log' = Append(log, LogEntry("/invocations", inflight[t].body,
                                               flood_bad_image, FALSE, None))
                /\ UNCHANGED <<vsimem, contents, tokens, rng>>
           ELSE LET detects == gen_flood_detects(ds[1].RasterXSize, ds[1].RasterYSize,
                                                 BBOX_PERCENTAGE, rng, tokens)
                    resp == IF detects.raised
                            THEN flood_internal_error
                            ELSE Response(200, "", Some(FeatureCollection(detects.features)))
                IN  /\ log' = Append(log, LogEntry("/invocations", inflight[t].body,
                                                   resp, TRUE, None))
                    /\ Unlink(inflight[t].temp_ds_name)
                    /\ tokens' = detects.tokens
                    /\ rng' = detects.rng
    /\ inflight' = [inflight EXCEPT ![t] = IdleThread]
    /\ UNCHANGED <<service, env, default_image_id, calls>>

\* what request_to_instances and instances_to_feature_collection make of an
\* opened dataset: one result per outcome of the detector
aircraft_results(gdal_dataset, tok) ==
    LET image_array == ReadAsArray(gdal_dataset)
        image == normalized_image(image_array)
    IN  IF ENABLE_FAULT_DETECTION /\ all_isclose_zero(image_array)
        THEN {[entry |-> LogEntry("/invocations", EmptyBody, aircraft_internal_error,
                                  FALSE, None),
               tokens |-> tok]}
        ELSE {LET converted == instances_to_feature_collection(out.instances,
                                                               default_image_id[1], tok)
              IN  IF out.raised
                  THEN [entry |-> LogEntry("/invocations", EmptyBody,
                                           aircraft_internal_error, TRUE, Some(image)),
                        tokens |-> tok]
                  ELSE IF converted.raised
                  THEN [entry |-> DetectorLogEntry(EmptyBody, aircraft_internal_error,
                                                   image, out.instances),
                        tokens |-> converted.tokens]
                  ELSE [entry |-> DetectorLogEntry(EmptyBody,
                                     Response(200, "",
                                        Some(FeatureCollection(converted.features))),
                                     image, out.instances),
                        tokens |-> converted.tokens]
              : out \in PredictorOutcomes(image)}

\* aircraft predict after gdal.Open: 500 when it failed, else the detector's
\* result; the finally block unlinks the buffer when there is a dataset
aircraft_respond(t) ==
    /\ service = "aircraft"
    /\ inflight[t].pc = "opened"
    /\ LET ds == inflight[t].ds
       IN  IF ds = None
           THEN /\ log' = Append(log, LogEntry("/invocations", inflight[t].body,
                                               aircraft_internal_error, FALSE, None))
                /\ UNCHANGED <<vsimem, contents, tokens>>
           ELSE \E result \in aircraft_results(ds[1], tokens) :
                   /\ log' = Append(log, [result.entry EXCEPT !.req = inflight[t].body])
                   /\ Unlink(inflight[t].temp_ds_name)
                   /\ tokens' = result.tokens
    /\ inflight' = [inflight EXCEPT ![t] = IdleThread]
    /\ UNCHANGED <<service, env, rng, default_image_id, calls>>

(* ---------------------------- the process ----------------------------- *)
Init ==
    /\ service \in Services \cup {"server_utils"}
    /\ env \in Environments(service)
    /\ vsimem = {}
    /\ rng \in (IF service = "flood" THEN 0..MaxSeed ELSE {0})
    \* aircraft/app.py evaluates str(uuid.uuid4()) once, when the function is defined
    /\ default_image_id = IF service = "aircraft" THEN Some(1) ELSE None
    /\ tokens = IF service = "aircraft" THEN 1 ELSE 0
    /\ log = <<>>
    /\ calls = <<>>
    /\ inflight = [t \in Threads |-> IdleThread]
    /\ contents = NoFiles

Next ==
    \/ healthcheck
    \/ centerpoint_predict
    \/ centerpoint_segmentation_predict
    \/ flood_predict
    \/ aircraft_predict
    \/ call_detect_to_geojson_dict
    \/ call_detect_to_geojson_segmentation_dict
    \/ call_detect_to_feature
    \/ call_convert_mask_to_polygon
    \/ call_detect_and_mask_to_geojson_dict

Spec == Init /\ [][Next]_vars

\* the same process serving overlapping /invocations requests
OverlapInit ==
    /\ service \in Services
    /\ env \in OverlapEnvironments(service)
    /\ vsimem = {}
    /\ rng = 0
    /\ default_image_id = IF service = "aircraft" THEN Some(1) ELSE None
    /\ tokens = IF service = "aircraft" THEN 1 ELSE 0
    /\ log = <<>>
    /\ calls = <<>>
    /\ inflight = [t \in Threads |-> IdleThread]
    /\ contents = NoFiles

OverlapNext ==
    \E t \in Threads :
        \/ begin_request(t)
        \/ FileFromMemBuffer(t)
        \/ Open(t)
        \/ centerpoint_respond(t)
        \/ flood_respond(t)
        \/ aircraft_respond(t)

OverlapSpec == OverlapInit /\ [][OverlapNext]_vars

(* ------------------------------- claims ------------------------------ *)
Invocations == {i \in DOMAIN log : log[i].route = "/invocations"}

Undecodable(body) == body.kind \in {"empty", "garbage"}

Features(entry) == entry.collection[1].features

\* C1: after any sequence of requests, no /vsimem buffer created by a
\* completed request is still allocated (it was unlinked on every exit path).
C1_NoBufferRemains == vsimem = {}

\* C2: in the centerpoint and flood services an empty or unparseable body is
\* answered with status 400 and no detection generator runs for it.
C2_BadImageIs400 ==
    \A i \in Invocations :
        (service \in {"centerpoint", "centerpoint-segmentation", "flood"}
            /\ Undecodable(log[i].req))
        => (log[i].status = 400 /\ ~log[i].ran /\ log[i].collection = None)

C2_Witness ==
    \E i \in Invocations, j \in Invocations :
        /\ service = "flood"
        /\ log[i].req = GarbageBody /\ log[i].status = 400
        /\ log[j].req = EmptyBody /\ log[j].status = 400

\* C3: in the aircraft service an empty or undecodable body is answered
\* with status 400.
C3_AircraftBadImageIs400 ==
    \A i \in Invocations :
        (service = "aircraft" /\ Undecodable(log[i].req)) => log[i].status = 400

\* C4: with fault detection enabled an all-zero raster ends in an error
\* outcome: the detector is never called and no FeatureCollection is sent.
AllZeroRaster(body) == body.kind = "image" /\ body.fill = "zeros"

C4_AllZeroRejected ==
    \A i \in Invocations :
        (service = "aircraft" /\ env.ENABLE_FAULT_DETECTION = Some("true")
            /\ AllZeroRaster(log[i].req))
        => (log[i].status >= 400 /\ ~log[i].ran /\ log[i].image = None
            /\ log[i].collection = None)

C4_Witness ==
    \E i \in Invocations :
        /\ service = "aircraft" /\ env.ENABLE_FAULT_DETECTION = Some("true")
        /\ AllZeroRaster(log[i].req) /\ log[i].req.bands = 3
        /\ log[i].status = 500

\* C5: the aircraft service's answer to an all-zero raster under fault
\* detection differs, in status code or body, from its answer to an
\* undecodable payload.
C5_FaultsDistinguishable ==
    \A i \in Invocations, j \in Invocations :
        (service = "aircraft" /\ env.ENABLE_FAULT_DETECTION = Some("true")
            /\ AllZeroRaster(log[i].req) /\ Undecodable(log[j].req))
        => <<log[i].status, log[i].text>> # <<log[j].status, log[j].text>>

\* C6: whatever the band layout of the raster, the image handed to the
\* detector has exactly 3 channels and width*height*3 samples.
C6_ThreeChannels ==
    \A i \in Invocations :
        log[i].image # None
        => (/\ log[i].image[1].shape =
                  <<log[i].req.ysize, log[i].req.xsize, 3>>
            /\ Len(log[i].image[1].data) = log[i].req.xsize * log[i].req.ysize * 3)

\* C7: every box the flood service generates lies inside the raster:
\* 0 <= x_min <= x_max <= RasterXSize and 0 <= y_min <= y_max <= RasterYSize.
C7_BoxInsideRaster ==
    \A i \in Invocations :
        (service = "flood" /\ log[i].status = 200)
        => \A k \in DOMAIN Features(log[i]) :
              LET b == Features(log[i])[k].properties.bounds_imcoords
              IN  /\ 0 <= b[1] /\ b[1] <= b[3] /\ b[3] <= log[i].req.xsize
                  /\ 0 <= b[2] /\ b[2] <= b[4] /\ b[4] <= log[i].req.ysize

BoxFits(d, pct) == \E half \in 0..d : 100 * half >= d * pct /\ 2 * half < d

C9_Default500 ==
    \A i \in Invocations :
        (service = "flood" /\ env.FLOOD_VOLUME = None /\ log[i].status = 200)
        => Len(Features(log[i])) = 500

\* C9 amended: with no flood volume configured the generator produces 100
\* detections per successful invocation.
C9_Default100 ==
    \A i \in Invocations :
        (service = "flood" /\ env.FLOOD_VOLUME = None /\ log[i].status = 200)
        => Len(Features(log[i])) = 100

C9_Witness ==
    \E i \in Invocations :
        /\ service = "flood" /\ env.FLOOD_VOLUME = None
        /\ log[i].status = 200 /\ Len(Features(log[i])) = 100

\* C10: the centerpoint generator returns exactly one feature, whose box is
\* centred on (width/2, height/2) with half-extents (width*p, height*p); for
\* a 1000x800 raster and p = 0.1 it is [400, 320, 600, 480]; gen_center_bbox
\* and gen_center_point_detect compute the same box.
C10_CenterBox ==
    \A i \in Invocations :
        (service = "centerpoint" /\ log[i].status = 200)
        => LET w == log[i].req.xsize
               h == log[i].req.ysize
               p == BBOX_PERCENTAGE
               b == Features(log[i])[1].properties.bounds_imcoords
           IN  /\ Len(Features(log[i])) = 1
               /\ b[1] + b[3] = w * 200000 /\ b[3] - b[1] = w * p * 4000
               /\ b[2] + b[4] = h * 200000 /\ b[4] - b[2] = h * p * 4000
               /\ (w = 1000 /\ h = 800 /\ p = 10)
                     => b = <<400 * 200000, 320 * 200000, 600 * 200000, 480 * 200000>>
               /\ gen_center_bbox(w, h, p)
                     = gen_center_point_detect(w, h, p, 0).properties.bounds_imcoords

C10_Witness ==
    \E i \in Invocations :
        /\ service = "centerpoint" /\ env.ENABLE_SEGMENTATION = None
        /\ log[i].req = ScenarioBody /\ BBOX_PERCENTAGE = 10
        /\ log[i].status = 200
        /\ Features(log[i])[1].properties.bounds_imcoords
              = <<80000000, 64000000, 120000000, 96000000>>

(* ------------------- claims about features and polygons -------------- *)
\* P holds of every feature a service has sent and of every feature an
\* encoder function has returned to a direct call
EveryFeature(P(_)) ==
    /\ \A i \in DOMAIN log :
          log[i].collection # None
          => \A k \in DOMAIN Features(log[i]) : P(Features(log[i])[k])
    /\ \A c \in DOMAIN calls :
          (calls[c].fn # "convert_mask_to_polygon" /\ ~calls[c].raised)
          => P(calls[c].result[1])

Closed(polygon) == Len(polygon) >= 4 /\ polygon[1] = polygon[Len(polygon)]

PolygonClosedIn(feature) ==
    /\ "geom_imcoords" \in DOMAIN feature.properties
          => Closed(feature.properties.geom_imcoords)
    /\ "polygon_imcoords" \in DOMAIN feature.properties
          => Closed(feature.properties.polygon_imcoords)

\* C11: every polygon emitted in a feature, and every polygon the contourer
\* returns, is closed: at least 4 points, the first equal to the last.
C11_PolygonsClosed ==
    /\ EveryFeature(PolygonClosedIn)
    /\ \A c \in DOMAIN calls :
          (calls[c].fn = "convert_mask_to_polygon" /\ ~calls[c].raised)
          => Closed(calls[c].result[1])

\* no sample of the mask is above 0.5
NoForeground(mask) == \A y \in DOMAIN mask : \A x \in DOMAIN mask[y] : mask[y][x] <= 2

\* C12: a detection whose mask has no foreground pixels does not make the
\* contourer raise: its feature is emitted with box and score and without a
\* polygon, next to the features of the request's other detections.
C12_EmptyMaskTolerated ==
    /\ \A i \in Invocations :
          (service = "aircraft" /\ env.ENABLE_SEGMENTATION = Some("True")
              /\ log[i].detections # None)
          => LET d == log[i].detections[1]
             IN  /\ log[i].status = 200
                 /\ Len(Features(log[i])) = Len(d)
                 /\ \A k \in DOMAIN d :
                       LET properties == Features(log[i])[k].properties
                       IN  /\ properties.bounds_imcoords = d[k].bbox
                           /\ properties.detection_score = d[k].score
                           /\ ("geom_imcoords" \in DOMAIN properties)
                                 <=> ~NoForeground(d[k].mask)
    /\ \A c \in DOMAIN calls :
          (calls[c].fn \in {"convert_mask_to_polygon", "detect_and_mask_to_geojson_dict"}
              /\ NoForeground(calls[c].args.mask[1]))
          => ~calls[c].raised

\* the pixels of the mask above 0.5, the corners of their bounding box, and
\* whether a background pixel lies inside that box
ForegroundPixels(mask) ==
    {<<q[1] - 1, q[2] - 1>> :
        q \in {r \in (1..Len(mask[1])) \X (1..Len(mask)) : mask[r[2]][r[1]] > 2}}

BoundingCorners(mask) ==
    LET fg == ForegroundPixels(mask)
    IN  {SetMin({q[1] : q \in fg}), SetMax({q[1] : q \in fg})}
          \X {SetMin({q[2] : q \in fg}), SetMax({q[2] : q \in fg})}

HasHole(mask) ==
    LET fg == ForegroundPixels(mask)
    IN  \E q \in (0..(Len(mask[1]) - 1)) \X (0..(Len(mask) - 1)) :
           /\ q \notin fg
           /\ \E l \in fg, r \in fg : l[2] = q[2] /\ l[1] < q[1] /\ q[1] < r[1]
           /\ \E u \in fg, b \in fg : u[1] = q[1] /\ u[2] < q[2] /\ q[2] < b[2]

\* every sample of the mask is 0 or 1
IsBinary(mask) == \A y \in DOMAIN mask : \A x \in DOMAIN mask[y] : mask[y][x] \in {0, 4}

\* C13: for a binary mask with foreground, convert_mask_to_polygon returns the
\* outer border of the region (here: the corners of its bounding box, the
\* first repeated at the end), never the border of the hole, and logs
\* exactly one warning when the region has a hole and none when it has not.
C13_OuterRingOneWarning ==
    \A c \in DOMAIN calls :
        (calls[c].fn = "convert_mask_to_polygon" /\ IsBinary(calls[c].args.mask[1])
            /\ ~NoForeground(calls[c].args.mask[1]))
        => /\ ~calls[c].raised
           /\ LET polygon == calls[c].result[1]
              IN  /\ {polygon[k] : k \in DOMAIN polygon} = BoundingCorners(calls[c].args.mask[1])
                  /\ polygon[1] = polygon[Len(polygon)]
           /\ calls[c].warnings = IF HasHole(calls[c].args.mask[1]) THEN 1 ELSE 0

C13_Witness ==
    \E c \in DOMAIN calls, d \in DOMAIN calls :
        /\ calls[c].fn = "convert_mask_to_polygon" /\ calls[c].args.mask[1] = Mask("ring")
        /\ calls[c].warnings = 1 /\ Len(calls[c].result[1]) = 5
        /\ calls[d].fn = "convert_mask_to_polygon" /\ calls[d].args.mask[1] = Mask("full")
        /\ calls[d].warnings = 0

\* the features of the i-th request, none when it sent no FeatureCollection
Sent(i) == IF log[i].collection = None THEN <<>> ELSE Features(log[i])

C15_MaskPassedThrough ==
    \A c \in DOMAIN calls :
        calls[c].fn = "detect_to_feature"
        => LET properties == calls[c].result[1].properties
           IN  /\ properties.bounds_imcoords = calls[c].args.bbox
               /\ IF calls[c].args.mask = None
                  THEN "geom_imcoords" \notin DOMAIN properties
                  ELSE /\ "geom_imcoords" \in DOMAIN properties
                       /\ properties.geom_imcoords = calls[c].args.mask[1]

C15_Witness ==
    \E c \in DOMAIN calls, d \in DOMAIN calls :
        /\ calls[c].fn = "detect_to_feature" /\ calls[c].args.mask = None
        /\ "geom_imcoords" \notin DOMAIN calls[c].result[1].properties
        /\ calls[d].fn = "detect_to_feature" /\ calls[d].args.mask = Some(CallPolygon)
        /\ calls[d].result[1].properties.geom_imcoords = CallPolygon

IsPointFeature(feature) ==
    /\ feature.type = "Feature"
    /\ feature.geometry = [type |-> "Point", coordinates |-> <<0, 0>>]

\* C16: every feature a service sends or an encoder returns has type
\* "Feature" and the geometry Point [0.0, 0.0], whatever the box, mask or
\* image.
C16_PointGeometry == EveryFeature(IsPointFeature)

C16_Witness ==
    \/ \E i \in Invocations :
          /\ service = "centerpoint-segmentation" /\ log[i].req = ScenarioBody
          /\ Len(Sent(i)) = 1 /\ IsPointFeature(Sent(i)[1])
          /\ Sent(i)[1].properties.bounds_imcoords[1] > 0
    \/ \E c \in DOMAIN calls :
          /\ calls[c].fn = "detect_and_mask_to_geojson_dict" /\ ~calls[c].raised
          /\ IsPointFeature(calls[c].result[1])

OneTypeWithScore(feature) ==
    LET feature_types == feature.properties.feature_types
    IN  /\ Cardinality(DOMAIN feature_types) = 1
        /\ \A t \in DOMAIN feature_types :
              feature_types[t] = feature.properties.detection_score

\* C18: feature_types has exactly one entry, keyed by the class label, whose
\* value is the feature's detection_score; a score and class that are not
\* supplied default to 1.0 and "sample_object".
C18_OneTypeEntry ==
    /\ EveryFeature(OneTypeWithScore)
    /\ \A i \in Invocations :
          \A k \in DOMAIN Sent(i) :
             /\ service = "aircraft"
                => /\ DOMAIN Sent(i)[k].properties.feature_types = {"aircraft"}
                   /\ Sent(i)[k].properties.detection_score
                         = log[i].detections[1][k].score
             /\ service = "centerpoint-segmentation"
                => /\ DOMAIN Sent(i)[k].properties.feature_types = {"sample_object"}
                   /\ Sent(i)[k].properties.detection_score = 100
    /\ \A c \in DOMAIN calls :
          (calls[c].fn # "convert_mask_to_polygon" /\ ~calls[c].raised)
          => LET properties == calls[c].result[1].properties
             IN  IF calls[c].args.score = None
                 THEN /\ properties.detection_score = 100
                      /\ DOMAIN properties.feature_types = {"sample_object"}
                 ELSE /\ properties.detection_score = calls[c].args.score[1]
                      /\ DOMAIN properties.feature_types = {calls[c].args.type[1]}

C18_Witness ==
    \E c \in DOMAIN calls, d \in DOMAIN calls :
        /\ calls[c].fn = "detect_to_geojson_dict" /\ calls[c].args.score = None
        /\ calls[c].result[1].properties.feature_types = [t \in {"sample_object"} |-> 100]
        /\ calls[d].fn = "detect_to_geojson_dict" /\ calls[d].args.score = Some(95)
        /\ calls[d].result[1].properties.feature_types = [t \in {"aircraft"} |-> 95]

\* C19: GET /ping is answered with status 200 whatever requests came before
\* it and however they ended.
C19_PingIs200 ==
    \A i \in DOMAIN log : log[i].route = "/ping" => log[i].status = 200

C19_Witness ==
    \E i \in DOMAIN log, j \in DOMAIN log :
        /\ i < j /\ vsimem # {}
        /\ log[i].route = "/invocations" /\ log[i].status = 500
        /\ log[j].route = "/ping" /\ log[j].status = 200

\* C20: the FeatureCollection built from k detections has k features, the
\* i-th carrying the i-th detection's box and score; identical detections
\* give separate features and no detections give an empty list.
C20_OneFeaturePerDetection ==
    \A i \in Invocations :
        (log[i].detections # None /\ log[i].status = 200)
        => LET d == log[i].detections[1]
           IN  /\ Len(Features(log[i])) = Len(d)
               /\ \A k \in DOMAIN d :
                     /\ Features(log[i])[k].properties.bounds_imcoords = d[k].bbox
                     /\ Features(log[i])[k].properties.detection_score = d[k].score

C20_Witness ==
    \E i \in Invocations, j \in Invocations :
        /\ log[i].detections # None /\ Len(log[i].detections[1]) = 2
        /\ log[i].detections[1][1] = log[i].detections[1][2]
        /\ log[i].status = 200 /\ Len(Features(log[i])) = 2
        /\ log[j].detections = Some(<<>>)
        /\ log[j].status = 200 /\ Features(log[j]) = <<>>

(* ------------------- claims about samples and flags ------------------ *)
\* C21: samples are scaled by 255 (and truncated) only when the raster is
\* floating point; the samples of an 8-bit raster reach the detector with
\* their values unchanged.
C21_Uint8Unchanged ==
    \A i \in Invocations :
        log[i].image # None
        => LET source == ReadAsArray(gdal_Open(log[i].req)).data
               handed == log[i].image[1].data
           IN  IF log[i].req.dtype = "uint8"
               THEN {handed[k] : k \in DOMAIN handed} = {source[k] : k \in DOMAIN source}
               ELSE {handed[k] : k \in DOMAIN handed}
                       = {(source[k] * 255) \div 2 : k \in DOMAIN source}

\* the polygon of a feature, under whichever key it is stored
PolygonOf(feature) ==
    IF "geom_imcoords" \in DOMAIN feature.properties
    THEN feature.properties.geom_imcoords
    ELSE IF "polygon_imcoords" \in DOMAIN feature.properties
    THEN feature.properties.polygon_imcoords
    ELSE <<>>

\* C22: in both centerpoint variants every vertex of the emitted polygon
\* lies within the bounding box of the same feature.
C22_PolygonInsideBox ==
    \A i \in Invocations :
        service \in {"centerpoint", "centerpoint-segmentation"}
        => \A k \in DOMAIN Sent(i) :
              LET b == Sent(i)[k].properties.bounds_imcoords
                  polygon == PolygonOf(Sent(i)[k])
              IN  \A v \in DOMAIN polygon :
                     /\ b[1] <= polygon[v][1] /\ polygon[v][1] <= b[3]
                     /\ b[2] <= polygon[v][2] /\ polygon[v][2] <= b[4]

\* C23: a mask sample is foreground exactly when it is above 0.5, fractional
\* values included: each contourer finds a contour exactly when the mask has
\* a sample above 0.5 (convert_mask_to_polygon returns a polygon; the
\* aircraft request whose masks all have such a sample is answered 200).
C23_ForegroundAboveHalf ==
    /\ \A c \in DOMAIN calls :
          calls[c].fn = "convert_mask_to_polygon"
          => (calls[c].raised <=> NoForeground(calls[c].args.mask[1]))
    /\ \A i \in Invocations :
          (service = "aircraft" /\ env.ENABLE_SEGMENTATION = Some("True")
              /\ log[i].detections # None)
          => (log[i].status = 500
                 <=> \E k \in DOMAIN log[i].detections[1] :
                        NoForeground(log[i].detections[1][k].mask))

\* ENABLE_SEGMENTATION is set to "true" in some letter case
FlagIsTrue ==
    env.ENABLE_SEGMENTATION # None /\ lower(env.ENABLE_SEGMENTATION[1]) = "true"

\* C25: the centerpoint, flood and aircraft services read ENABLE_SEGMENTATION
\* the same way: on exactly when it is "true" in some letter case, off when
\* unset or "False"; a service with it off sends features without a polygon.
C25_SameInterpretation ==
    /\ service = "centerpoint" => (centerpoint_ENABLE_SEGMENTATION <=> FlagIsTrue)
    /\ service \in {"flood", "aircraft"} => (ENABLE_SEGMENTATION <=> FlagIsTrue)
    /\ \A i \in Invocations :
          service \in {"centerpoint", "flood", "aircraft"}
          => \A k \in DOMAIN Sent(i) : (PolygonOf(Sent(i)[k]) # <<>>) <=> FlagIsTrue

(* ------------------- claims about overlapping requests --------------- *)
Busy == {t \in Threads : inflight[t].pc # "idle"}

\* what gdal.Open makes of a request's own body
OwnDataset(body) == IF gdal_decodable(body) THEN Some(gdal_Open(body)) ELSE None

\* C24: requests handled at the same time use different buffer names; the
\* buffer a request has written holds its own body until the request itself
\* unlinks it, the dataset it opens is decoded from its own body, and the
\* response is the one its own body calls for.
C24_OwnBuffer ==
    /\ \A t \in Busy, u \in Busy :
          t # u => inflight[t].temp_ds_name # inflight[u].temp_ds_name
    /\ \A t \in Busy :
          /\ inflight[t].pc \in {"written", "opened"}
             => /\ inflight[t].temp_ds_name \in vsimem
                /\ contents[inflight[t].temp_ds_name] = inflight[t].body
          /\ inflight[t].pc = "opened" => inflight[t].ds = OwnDataset(inflight[t].body)
    /\ \A i \in Invocations :
          /\ log[i].status = 200 <=> (gdal_decodable(log[i].req) /\ log[i].collection # None)
          /\ log[i].ran => gdal_decodable(log[i].req)
          /\ (service \in {"centerpoint", "centerpoint-segmentation"}
                /\ log[i].status = 200)
             => Features(log[i])[1].properties.bounds_imcoords
                   = gen_center_bbox(log[i].req.xsize, log[i].req.ysize, BBOX_PERCENTAGE)
          /\ (service = "flood" /\ gdal_decodable(log[i].req))
             => Len(Features(log[i])) = FLOOD_VOLUME
          /\ log[i].image # None
             => log[i].image[1] = normalized_image(ReadAsArray(gdal_Open(log[i].req)))

C24_Witness ==
    \E t \in Busy, u \in Busy :
        /\ inflight[t].pc = "opened" /\ inflight[u].pc = "opened"
        /\ inflight[t].body # inflight[u].body
        /\ inflight[t].ds # None /\ inflight[u].ds = None
        /\ {inflight[t].temp_ds_name, inflight[u].temp_ds_name} \subseteq vsimem
        /\ Len(log) = 0

====
